---------------------------- MODULE Spec2Model ----------------------------
(***************************************************************************)
(* airanges: the GET /api/sp500 handler of the S&P 500 bubble server.      *)
(*                                                                         *)
(* One request is followed from its arrival to its response.  The handler  *)
(* is an async function: every `await fetch(...)` is a point where the     *)
(* handler (or one of the per-ticker workers started by Promise.all) is    *)
(* suspended until the environment answers the call.  One action of the    *)
(* model is one such resumption, run up to the next await.                 *)
(*                                                                         *)
(* The repository holds two versions of the handler (both in               *)
(* src/unnamed/part_001: lines 1-170 and lines 172-323).  `variant` says   *)
(* which one is deployed.                                                  *)
(***************************************************************************)
EXTENDS Integers, Sequences, FiniteSets, TLC

(***************************************************************************)
(* Bounds of the model.                                                    *)
(***************************************************************************)
\* distinct ticker symbols on the ranking page of the main specification
MaxSymbols == 2
\* regex matches on the ranking page of the main specification
MaxMatches == 3
\* pages of end-of-day history the upstream serves for one ticker
MaxPages == 3
\* ticker symbols on the ranking page of the batch specification
BatchSymbols == 11
\* distinct ticker symbols on the ranking page of the page specification
PageSymbols == 3
\* regex matches on the ranking page of the page specification
PageMatches == 4
\* loads of the page in the browser: the first one and the clicks after it
MaxLoads == 3
\* most records of a daily-prices answer (page_size is 6 on range=week)
MaxRows == 6

(***************************************************************************)
(* Program constants.                                                      *)
(***************************************************************************)
LimitDefault == 10
LimitMin == 1
LimitMax == 100
ConcurrencyCap == 10
HourBarsBack == 5
HourBarsMin == 6
SessionsDay == 1
SessionsWeek == 5
SessionsMonth == 21
SessionsYear == 252
PageSize == 100
ClientLimit == 10
\* part_004: the index of the record compared with, by range
CompareDay == 1
CompareWeek == 5
\* part_004: the most symbols taken from the ranking page
DailyTickersMax == 100

(***************************************************************************)
(* JavaScript values.  A value is a record [k, n, d]:                      *)
(*   k = "num"   the finite number n/d (d > 0, lowest terms)               *)
(*   k = "inf"   Infinity (n = 1) or -Infinity (n = -1)                    *)
(*   k = "nan"   NaN                                                       *)
(*   k = "null"  null or undefined                                         *)
(*   k = "obj"   an object or function (typeof is not 'number')            *)
(* A double is modelled by the exact rational it approximates; overflow    *)
(* of finite operands is not modelled, the non-finite results it would     *)
(* give are reached from an Infinity operand (JSON.parse of 1e999).        *)
(***************************************************************************)
\* Gcd and Frac are evaluated as functions, on the values of their arguments
GcdF[a \in Nat, b \in Nat] == IF b = 0 THEN a ELSE GcdF[b, a % b]

Gcd(a, b) == GcdF[a, b]

Abs(x) == IF x < 0 THEN -x ELSE x

Sign(x) == IF x < 0 THEN -1 ELSE IF x = 0 THEN 0 ELSE 1

Max(a, b) == IF a > b THEN a ELSE b

Min(a, b) == IF a < b THEN a ELSE b

Null == [k |-> "null", n |-> 0, d |-> 1]

NaN == [k |-> "nan", n |-> 0, d |-> 1]

Obj == [k |-> "obj", n |-> 0, d |-> 1]

Inf(s) == [k |-> "inf", n |-> s, d |-> 1]

FracF[a \in Int, b \in Int] ==
    LET g == Gcd(Abs(a), Abs(b))
        s == Sign(b)
    IN  [k |-> "num", n |-> (s * a) \div g, d |-> (s * b) \div g]

\* the finite number a/b, b # 0
Frac(a, b) == FracF[a, b]

Num(x) == Frac(x, 1)

\* typeof v === 'number'
IsNumber(v) == v.k \in {"num", "inf", "nan"}

\* Number.isFinite(v)
IsFinite(v) == v.k = "num"

\* v === 0
IsZero(v) == v.k = "num" /\ v.n = 0

\* a - b on numbers
JsSub(a, b) ==
    CASE a.k = "nan" \/ b.k = "nan" -> NaN
      [] a.k = "inf" /\ b.k = "inf" -> IF a.n = b.n THEN NaN ELSE a
      [] a.k = "inf" -> a
      [] b.k = "inf" -> Inf(-b.n)
      [] OTHER -> Frac(a.n * b.d - b.n * a.d, a.d * b.d)

\* a / b on numbers
JsDiv(a, b) ==
    CASE a.k = "nan" \/ b.k = "nan" -> NaN
      [] a.k = "inf" /\ b.k = "inf" -> NaN
      [] a.k = "inf" -> Inf(a.n * (IF b.n < 0 THEN -1 ELSE 1))
      [] b.k = "inf" -> Num(0)
      [] b.n = 0 -> IF a.n = 0 THEN NaN ELSE Inf(Sign(a.n))
      [] OTHER -> Frac(a.n * b.d, a.d * b.n)

\* a * c on numbers, c a finite positive constant
JsMul(a, c) ==
    CASE a.k = "nan" -> NaN
      [] a.k = "inf" -> a
      [] OTHER -> Frac(a.n * c, a.d)

\* ((now - base) / base) * 100
PctChange(now, base) == JsMul(JsDiv(JsSub(now, base), base), 100)

\* JsonNumber with a fault: a non-finite number is sent as it is
JsonNumberRaw(v) == v

\* JSON.stringify of a number-or-null field, as res.json sends it: a number
\* that is not finite is sent as null
JsonNumber(v) == IF v.k = "num" THEN v ELSE Null

(***************************************************************************)
(* Query parsing.                                                          *)
(***************************************************************************)
Digits == {"0", "1", "2", "3", "4", "5", "6", "7", "8", "9"}

DigitVal(c) ==
    CASE c = "0" -> 0 [] c = "1" -> 1 [] c = "2" -> 2 [] c = "3" -> 3
      [] c = "4" -> 4 [] c = "5" -> 5 [] c = "6" -> 6 [] c = "7" -> 7
      [] c = "8" -> 8 [] c = "9" -> 9

RECURSIVE TrimLeft(_)
TrimLeft(s) == IF s # <<>> /\ Head(s) = " " THEN TrimLeft(Tail(s)) ELSE s

RECURSIVE DigitPrefix(_, _, _)
\* [any |-> a digit was read, v |-> the value of the leading digits of s]
DigitPrefix(s, acc, any) ==
    IF s # <<>> /\ Head(s) \in Digits
    THEN DigitPrefix(Tail(s), acc * 10 + DigitVal(Head(s)), TRUE)
    ELSE [any |-> any, v |-> acc]

\* parseInt(s, 10) of a string given as its characters: NaN or an integer
ParseInt(s) ==
    LET t == TrimLeft(s)
        neg == t # <<>> /\ Head(t) = "-"
        u == IF t # <<>> /\ Head(t) \in {"-", "+"} THEN Tail(t) ELSE t
        p == DigitPrefix(u, 0, FALSE)
    IN  IF p.any THEN Num(IF neg THEN -p.v ELSE p.v) ELSE NaN

\* ClampLimit with a fault: Math.max(1, ...) left out
ClampLimitNoFloor(limitParam) ==
    Min(LimitMax, IF IsFinite(limitParam) THEN limitParam.n ELSE LimitDefault)

\* LIMIT of the handler
ClampLimit(limitParam) ==
    Max(LimitMin, Min(LimitMax, IF IsFinite(limitParam) THEN limitParam.n ELSE LimitDefault))

\* Concurrency with a fault: the cap left out
ConcurrencyUncapped(limit) == limit

\* CONCURRENCY of the handler
Concurrency(limit) == Min(limit, ConcurrencyCap)

(***************************************************************************)
(* req.query.range.  "" is the absent parameter.                           *)
(***************************************************************************)
RangeParams ==
    {"", "hour", "day", "week", "month", "year", "WEEK", "foo", "constructor"}

\* String.prototype.toLowerCase on the strings of RangeParams
ToLowerCase(s) == IF s = "WEEK" THEN "week" ELSE s

\* (req.query.range || 'day').toLowerCase()
NormalizeRange(raw) == ToLowerCase(IF raw = "" THEN "day" ELSE raw)

\* the if-chain of work (first version): a number of sessions
SessionsIfChain(range) ==
    CASE range = "day" -> Num(SessionsDay)
      [] range = "week" -> Num(SessionsWeek)
      [] range = "month" -> Num(SessionsMonth)
      [] range = "year" -> Num(SessionsYear)
      [] OTHER -> Num(SessionsDay)

\* sessionsMap[range]: an own property, a property inherited from
\* Object.prototype (an object or a function), or undefined
SessionsMapLookup(range) ==
    CASE range = "day" -> Num(SessionsDay)
      [] range = "week" -> Num(SessionsWeek)
      [] range = "month" -> Num(SessionsMonth)
      [] range = "year" -> Num(SessionsYear)
      [] range \in {"constructor", "__proto__"} -> Obj
      [] OTHER -> Null

\* sessionsMap[range] ?? 1 of worker (second version)
SessionsMap(range) ==
    LET v == SessionsMapLookup(range) IN IF v.k = "null" THEN Num(SessionsDay) ELSE v

\* the sessionsBack argument the worker of version v passes on range
SessionsBack(v, range) == IF v = 1 THEN SessionsIfChain(range) ELSE SessionsMap(range)

\* LenBelowNeed with a fault: one more row is asked for
LenBelowNeedLate(len, need) == need.k = "num" /\ len < need.n + 2

\* all.length < need + 1: `need + 1` is a number only when need is one
LenBelowNeed(len, need) == need.k = "num" /\ len < need.n + 1

\* hist.length > sessionsBack: false when sessionsBack is not a number
LenAbove(len, sessionsBack) == sessionsBack.k = "num" /\ len > sessionsBack.n

(***************************************************************************)
(* getTopTickers.  The ranking page is the sequence of symbols the regex   *)
(* matches in it, in document order.                                       *)
(***************************************************************************)
SeqRange(s) == {s[i] : i \in 1..Len(s)}

Take(s, n) == SubSeq(s, 1, Min(n, Len(s)))

RECURSIVE ScanMatchesNoSeen(_, _, _)
\* ScanMatches with a fault: seen is not looked at
ScanMatchesNoSeen(page, out, limit) ==
    IF page = <<>> \/ ~(Len(out) < limit) THEN out
    ELSE ScanMatchesNoSeen(Tail(page), Append(out, Head(page)), limit)

RECURSIVE ScanMatches(_, _, _)
\* the while loop: stops at the end of the page or once out holds limit symbols
ScanMatches(page, out, limit) ==
    IF page = <<>> \/ ~(Len(out) < limit) THEN out
    ELSE ScanMatches(Tail(page),
                     IF Head(page) \in SeqRange(out) THEN out ELSE Append(out, Head(page)),
                     limit)

\* GetTopTickers with a fault: an empty list is returned, not thrown
GetTopTickersAllowEmpty(answer, limit) ==
    IF answer.kind = "throw" THEN [ok |-> FALSE, error |-> "network error", tickers |-> <<>>]
    ELSE IF answer.kind = "fail" THEN [ok |-> FALSE, error |-> "SlickCharts HTTP", tickers |-> <<>>]
    ELSE [ok |-> TRUE, error |-> "", tickers |-> Take(ScanMatches(answer.page, <<>>, limit), limit)]

\* [ok |-> FALSE, error |-> message] (thrown) or [ok |-> TRUE, tickers |-> ...]
GetTopTickers(answer, limit) ==
    IF answer.kind = "throw" THEN [ok |-> FALSE, error |-> "network error", tickers |-> <<>>]
    ELSE IF answer.kind = "fail" THEN [ok |-> FALSE, error |-> "SlickCharts HTTP", tickers |-> <<>>]
    ELSE LET out == ScanMatches(answer.page, <<>>, limit)
         IN  IF Len(out) = 0
             THEN [ok |-> FALSE, error |-> "No S&P500 tickers scraped", tickers |-> <<>>]
             ELSE [ok |-> TRUE, error |-> "", tickers |-> Take(out, limit)]

(***************************************************************************)
(* Intraday bars: a series is the sequence of the bars' close values.      *)
(***************************************************************************)
\* latest15mClose on a 2xx answer: the close of the last bar, if a number
LastClose(arr) ==
    IF Len(arr) > 0 /\ IsNumber(arr[Len(arr)]) THEN arr[Len(arr)] ELSE Null

\* HourlyChangeFromIntervals with a fault: the base is the first bar
HourlyChangeFirstBar(arr) ==
    IF Len(arr) < HourBarsMin THEN [base |-> Null, changePct |-> Null]
    ELSE LET last == arr[Len(arr)]
             base == arr[1]
         IN  IF ~IsNumber(last) \/ ~IsNumber(base) \/ IsZero(base)
             THEN [base |-> Null, changePct |-> Null]
             ELSE [base |-> base, changePct |-> PctChange(last, base)]

\* hourlyChangeFromIntervals
HourlyChangeFromIntervals(arr) ==
    IF Len(arr) < HourBarsMin THEN [base |-> Null, changePct |-> Null]
    ELSE LET last == arr[Len(arr)]
             base == arr[Len(arr) - HourBarsBack]
         IN  IF ~IsNumber(last) \/ ~IsNumber(base) \/ IsZero(base)
             THEN [base |-> Null, changePct |-> Null]
             ELSE [base |-> base, changePct |-> PctChange(last, base)]

(***************************************************************************)
(* End-of-day history.  The upstream holds, for a ticker, a descending     *)
(* series of daily rows; `kind` says what its closes are, and each page    *)
(* carries the next rows of it, so `all` of fetchEodHistory is the first    *)
(* all.length rows of the series: the model holds all.length (len) and     *)
(* the series (kind).                                                      *)
(***************************************************************************)
EodKinds == {"num", "zero", "null", "inf"}

\* the close of row i (0-based) of a series
RowClose(kind, i) ==
    CASE kind = "num" -> Num(99 + i)
      [] kind = "zero" -> Num(0)
      [] kind = "inf" -> Inf(1)
      [] OTHER -> Null

\* BaseIndex with a fault: the base row is the latest row
BaseIndexFirst(len, sessionsBack) == 0

\* the (0-based) index of baseRow in hist, hist not empty
BaseIndex(len, sessionsBack) ==
    IF LenAbove(len, sessionsBack) THEN sessionsBack.n ELSE len - 1

(***************************************************************************)
(* The environment: what the upstream services answer.                     *)
(***************************************************************************)
Bars(closes) == [i \in 1..Len(closes) |-> Num(closes[i])]

\* 6 bars, 100 ... 110: the hourly change is 10 percent
HealthyBars == Bars(<<100, 102, 104, 106, 108, 110>>)

IntradaySeries ==
    { <<>>,
      Bars(<<100, 102, 104, 106, 110>>),
      HealthyBars,
      Bars(<<90, 100, 102, 104, 106, 108, 110>>),
      Bars(<<0, 102, 104, 106, 108, 110>>),
      Bars(<<100, 102, 104, 106, 108>>) \o <<Null>>,
      Bars(<<100, 102, 104, 106, 108>>) \o <<Inf(1)>> }

\* the answers to the intraday call of a ticker whose upstream has profile p:
\* "up" serves bars and history, "down" answers non-2xx, "intraonly" serves
\* bars and no history (non-2xx or no rows), any other answers anything
IntradayAnswers(p) ==
    CASE p = "up" -> {[kind |-> "ok", bars |-> HealthyBars]}
      [] p = "down" -> {[kind |-> "fail", bars |-> <<>>]}
      [] p = "intraonly" -> {[kind |-> "ok", bars |-> HealthyBars]}
      [] p = "endless" -> {[kind |-> "ok", bars |-> HealthyBars]}
      [] OTHER -> {[kind |-> "throw", bars |-> <<>>], [kind |-> "fail", bars |-> <<>>]}
                  \cup {[kind |-> "ok", bars |-> b] : b \in IntradaySeries}

\* rows on one page of end-of-day history
PageRows == {0, 1, PageSize}

\* the answers to the call for page number pageNo (1-based) of a ticker's
\* history; kind is the series already being served, "" before the first page
EodAnswers(p, pageNo, kind) ==
    CASE p = "up" ->
            {[kind |-> "ok", rows |-> PageSize, next |-> pageNo < MaxPages, series |-> "num"]}
      [] p = "down" ->
            {[kind |-> "fail", rows |-> 0, next |-> FALSE, series |-> kind]}
      [] p = "intraonly" ->
            {[kind |-> "fail", rows |-> 0, next |-> FALSE, series |-> kind],
             [kind |-> "ok", rows |-> 0, next |-> FALSE, series |-> "num"]}
      [] p = "endless" ->
            {[kind |-> "ok", rows |-> 0, next |-> TRUE, series |-> "num"]}
      [] OTHER ->
            {[kind |-> "throw", rows |-> 0, next |-> FALSE, series |-> kind],
             [kind |-> "fail", rows |-> 0, next |-> FALSE, series |-> kind]}
            \cup {[kind |-> "ok", rows |-> n, next |-> nx, series |-> sr] :
                    n \in PageRows,
                    nx \in {b \in BOOLEAN : b => pageNo < MaxPages},
                    sr \in IF kind = "" THEN EodKinds ELSE {kind}}

RECURSIVE PagesUpTo(_, _)
\* the ranking pages of at most n matches over the symbols 1..m, the symbols
\* numbered in the order of their first match
PagesUpTo(m, n) ==
    IF n = 0 THEN {<<>>}
    ELSE LET shorter == PagesUpTo(m, n - 1)
         IN  shorter \cup UNION {{Append(s, x) :
                                      x \in 1..Min(m, Cardinality(SeqRange(s)) + 1)} :
                                  s \in shorter}

\* the answers to the ranking-page call
RankingAnswers(pages) ==
    {[kind |-> "throw", page |-> <<>>], [kind |-> "fail", page |-> <<>>]}
    \cup {[kind |-> "ok", page |-> pg] : pg \in pages}

(***************************************************************************)
(* State.                                                                  *)
(***************************************************************************)
VARIABLES
    variant,    \* 1: the if-chain handler (lines 1-170), 2: the sessionsMap handler,
                \* 3: the day/week handler (part_004)
    apiKey,     \* process.env.INTRINIO_API_KEY: "" when not configured
    upstream,   \* the environment: [pages, profile] (see Init)
    req,        \* req.query: [range, limit], limit as its characters
    pc,         \* the handler: "start", "ranking", "batch", "done"
    range,      \* const range
    LIMIT,      \* const LIMIT
    tickers,    \* const tickers
    i,          \* the loop variable of the batch loop
    out,        \* const out = []
    w,          \* the invocations of work/worker, by position in tickers
    resp,       \* the response sent: [status, error, body], status 0 before it
    calls,      \* external calls issued so far
    other,      \* a second request in the same process: the locals of its handler
    client      \* the page in the browser: the SVG and the loads under way

vars == <<variant, apiKey, upstream, req, pc, range, LIMIT, tickers, i, out, w, resp, calls,
          other, client>>

\* no second request
NoRequest == [pc |-> "none"]

\* no page open
NoClient == [svg |-> <<>>, loads |-> {}, clicks |-> 0]

NoResponse == [status |-> 0, error |-> "", body |-> <<>>]

IdleWorker ==
    [pc |-> "idle", need |-> Null, fetched |-> 0, len |-> 0, kind |-> "",
     next |-> FALSE, intervals |-> <<>>, price |-> Null, changePercent |-> Null,
     now |-> Null, base |-> Null, ok |-> FALSE, failed |-> FALSE]

(***************************************************************************)
(* work / worker: one invocation per ticker.                               *)
(*   pc    "idle" not called yet, "eod" awaiting a page of fetchEodHistory,*)
(*         "intra" awaiting the fetch of latest15mClose, "done" returned   *)
(*   need  the sessionsBack argument                                       *)
(*   fetched, len, kind   pages requested, all.length, the series served   *)
(*   next  `next` of fetchEodHistory: the last page carried a cursor       *)
(*   intervals   latest.intervals, as handed to hourlyChangeFromIntervals  *)
(*   price, changePercent   the metric returned                            *)
(*   now, base   the locals of eodChangeVsLatest15m / the bar compared     *)
(*   ok    some call of this invocation was answered 2xx                   *)
(*   failed   some call of this invocation was answered non-2xx            *)
(***************************************************************************)
\* return { ticker: t, price, changePercent }
Return(wk, price, changePct, now, base) ==
    [wk EXCEPT !.pc = "done", !.price = price, !.changePercent = changePct,
               !.now = now, !.base = base]

\* WorkCatch with a fault: the exception leaves the worker
WorkNoCatch(wk) == [wk EXCEPT !.pc = "rejected"]

\* the pages requested by one call of fetchEodHistory and the calls issued by
\* one request are counted up to a cap (the history of an upstream that is
\* not endless has at most MaxPages pages).  Past MaxPages the page count
\* goes between MaxPages + 1 and MaxPages + 2, so that every further page
\* requested is a step; past CallsCap the calls are not told apart
PageCount(n) == IF n > MaxPages + 2 THEN MaxPages + 1 ELSE n

CallsCap == 1 + BatchSymbols * (MaxPages + 1)

CallCount(n) == Min(n, CallsCap)

\* catch { return { ticker: t, price: null, changePercent: null } }
WorkCatch(wk) == [wk EXCEPT !.pc = "done", !.price = Null, !.changePercent = Null]

\* the call of work(t) up to its first await
StartWork(v, rng) ==
    IF rng = "hour"
    THEN [IdleWorker EXCEPT !.pc = "intra"]
    ELSE [IdleWorker EXCEPT !.pc = "eod", !.need = SessionsBack(v, rng), !.fetched = 1]

\* eodChangeVsLatest15m once fetchEodHistory has returned hist
AfterHistory(v, wk) ==
    IF v = 1 /\ wk.len = 0
    THEN Return(wk, Null, Null, Null, Null)
    ELSE [wk EXCEPT !.pc = "intra"]

\* FetchEodHistory with a fault: a non-2xx page throws, past the catch
FetchEodHistoryThrows(v, wk, a) ==
    CASE a.kind = "throw" -> WorkCatch(wk)
      [] a.kind = "fail" -> [wk EXCEPT !.pc = "rejected", !.failed = TRUE]
      [] OTHER ->
            LET got == [wk EXCEPT !.len = @ + a.rows, !.kind = a.series,
                                  !.next = a.next, !.ok = TRUE]
            IN  IF LenBelowNeed(got.len, got.need) /\ a.next
                THEN [got EXCEPT !.fetched = PageCount(@ + 1)]
                ELSE AfterHistory(v, got)

\* one turn of the do-while loop of fetchEodHistory, on answer a
FetchEodHistory(v, wk, a) ==
    CASE a.kind = "throw" -> WorkCatch(wk)
      [] a.kind = "fail" -> AfterHistory(v, [wk EXCEPT !.failed = TRUE])
      [] OTHER ->
            LET got == [wk EXCEPT !.len = @ + a.rows, !.kind = a.series,
                                  !.next = a.next, !.ok = TRUE]
            IN  IF LenBelowNeed(got.len, got.need) /\ a.next
                THEN [got EXCEPT !.fetched = PageCount(@ + 1)]
                ELSE AfterHistory(v, got)

\* baseRow && typeof baseRow.close === 'number' ? baseRow.close : null
BaseClose(wk) ==
    LET c == RowClose(wk.kind, BaseIndex(wk.len, wk.need))
    IN  IF IsNumber(c) THEN c ELSE Null

\* EodChange with a fault: base === 0 is not looked at
EodChangeNoZeroGuard(v, wk, now) ==
    IF wk.len = 0 \/ ~IsNumber(now) \/ ~IsNumber(BaseClose(wk))
    THEN [now |-> now, base |-> Null, changePct |-> Null]
    ELSE [now |-> now, base |-> BaseClose(wk), changePct |-> PctChange(now, BaseClose(wk))]

\* eodChangeVsLatest15m from `const now` on: [now, base (the local), changePct]
EodChange(v, wk, now) ==
    IF v = 1
    THEN LET base == BaseClose(wk)
         IN  IF ~(IsNumber(now) /\ IsNumber(base)) \/ IsZero(base)
             THEN [now |-> now, base |-> base, changePct |-> Null]
             ELSE [now |-> now, base |-> base, changePct |-> PctChange(now, base)]
    ELSE IF wk.len = 0 \/ ~IsNumber(now)
         THEN [now |-> now, base |-> Null, changePct |-> Null]
         ELSE LET base == BaseClose(wk)
              IN  IF ~IsNumber(base) \/ IsZero(base)
                  THEN [now |-> now, base |-> base, changePct |-> Null]
                  ELSE [now |-> now, base |-> base, changePct |-> PctChange(now, base)]

\* latest15mClose on answer a (not thrown): [price, intervals]
Latest15mClose(a) ==
    IF a.kind = "fail"
    THEN [price |-> Null, intervals |-> <<>>]
    ELSE [price |-> LastClose(a.bars), intervals |-> a.bars]

\* AfterIntraday with a fault: a non-2xx answer is followed by a second call
AfterIntradayRetry(v, rng, wk, a) ==
    IF a.kind = "throw" THEN WorkCatch(wk)
    ELSE IF a.kind = "fail" /\ ~wk.failed THEN [wk EXCEPT !.failed = TRUE]
    ELSE LET latest == Latest15mClose(a)
             got == [wk EXCEPT !.ok = @ \/ a.kind = "ok", !.failed = @ \/ a.kind = "fail"]
         IN  IF rng = "hour"
             THEN LET hc == HourlyChangeFromIntervals(latest.intervals)
                  IN  Return([got EXCEPT !.intervals = latest.intervals],
                             latest.price, hc.changePct, latest.price, hc.base)
             ELSE LET ec == EodChange(v, got, latest.price)
                  IN  Return(got, ec.now, ec.changePct, ec.now, ec.base)

\* work from the answer of the intraday call to its return
AfterIntraday(v, rng, wk, a) ==
    IF a.kind = "throw" THEN WorkCatch(wk)
    ELSE LET latest == Latest15mClose(a)
             got == [wk EXCEPT !.ok = @ \/ a.kind = "ok", !.failed = @ \/ a.kind = "fail"]
         IN  IF rng = "hour"
             THEN LET hc == HourlyChangeFromIntervals(latest.intervals)
                  IN  Return([got EXCEPT !.intervals = latest.intervals],
                             latest.price, hc.changePct, latest.price, hc.base)
             ELSE LET ec == EodChange(v, got, latest.price)
                  IN  Return(got, ec.now, ec.changePct, ec.now, ec.base)

(***************************************************************************)
(* The handler.                                                            *)
(***************************************************************************)
\* KeyMissing with a fault: the key is not looked at
KeyNeverMissing(key) == FALSE

\* !apiKey
KeyMissing(key) == key = ""

\* Chunk with a fault: every ticker not yet worked is in the chunk
ChunkRest(ii, n, c) == (ii + 1)..n

\* tickers.slice(i, i + CONCURRENCY), as positions in tickers
Chunk(ii, n, c) == (ii + 1)..Min(ii + c, n)

\* Metric with a fault: the ticker is left empty
MetricNoTicker(sym, wk) == [ticker |-> 0, price |-> wk.price, changePercent |-> wk.changePercent]

\* the object a worker returns for symbol sym; symbols are 1, 2, ..., each a
\* match of [A-Za-z\.]+ (one character or more), and 0 is the empty string
Metric(sym, wk) == [ticker |-> sym, price |-> wk.price, changePercent |-> wk.changePercent]

\* BatchResults with a fault: a metric without a price is left out
BatchResultsDropNull(ii, tk, wv, c) ==
    SelectSeq([k \in 1..(Min(ii + c, Len(tk)) - ii) |-> Metric(tk[ii + k], wv[ii + k])],
              LAMBDA m : m.price.k # "null")

\* the array Promise.all resolves to: the results in the order of the chunk
BatchResults(ii, tk, wv, c) ==
    [k \in 1..(Min(ii + c, Len(tk)) - ii) |-> Metric(tk[ii + k], wv[ii + k])]

\* x && x.ticker: a ticker is a non-empty string, symbol 0 stands for ""
Truthy(m) == m.ticker # 0

\* res.json(out.filter(x => x && x.ticker).slice(0, LIMIT)), as serialised
ResponseBody(outv, limit) ==
    LET kept == Take(SelectSeq(outv, Truthy), limit)
    IN  [k \in 1..Len(kept) |->
            [ticker |-> kept[k].ticker,
             price |-> JsonNumber(kept[k].price),
             changePercent |-> JsonNumber(kept[k].changePercent)]]

Error500(msg) == [status |-> 500, error |-> msg, body |-> <<>>]

\* the head of the batch loop with i = ii: start the next chunk, or respond
LoopStep(ii, tk, outv, wv) ==
    /\ i' = ii
    /\ tickers' = tk
    /\ out' = outv
    /\ IF ii < Len(tk)
       THEN LET ch == Chunk(ii, Len(tk), Concurrency(LIMIT))
            IN  /\ w' = [t \in 1..Len(tk) |->
                            IF t \in ch THEN StartWork(variant, range) ELSE wv[t]]
                /\ calls' = CallCount(calls + Cardinality(ch))
                /\ pc' = "batch"
                /\ resp' = resp
       ELSE /\ w' = wv
            /\ calls' = calls
            /\ pc' = "done"
            /\ resp' = [status |-> 200, error |-> "", body |-> ResponseBody(outv, LIMIT)]

\* RejectNoKey with a fault: the return is left out, the handler goes on
RejectNoKeyNoReturn ==
    /\ pc = "start"
    /\ KeyMissing(apiKey)
    /\ resp' = Error500("INTRINIO_API_KEY missing")
    /\ range' = NormalizeRange(req.range)
    /\ LIMIT' = ClampLimit(ParseInt(req.limit))
    /\ pc' = "ranking"
    /\ calls' = CallCount(calls + 1)
    /\ UNCHANGED <<variant, apiKey, upstream, req, tickers, i, out, w>>

\* if (!apiKey) return res.status(500).json(...)
RejectNoKey ==
    /\ pc = "start"
    /\ KeyMissing(apiKey)
    /\ pc' = "done"
    /\ resp' = Error500("INTRINIO_API_KEY missing")
    /\ UNCHANGED <<variant, apiKey, upstream, req, range, LIMIT, tickers, i, out, w, calls>>

\* the handler up to `await getTopTickers(LIMIT)`: the ranking page is requested
Receive ==
    /\ pc = "start"
    /\ ~KeyMissing(apiKey)
    /\ range' = NormalizeRange(req.range)
    /\ LIMIT' = ClampLimit(ParseInt(req.limit))
    /\ pc' = "ranking"
    /\ calls' = CallCount(calls + 1)
    /\ UNCHANGED <<variant, apiKey, upstream, req, tickers, i, out, w, resp>>

\* the ranking page is answered: getTopTickers returns or throws
RankingCompletes ==
    /\ pc = "ranking"
    /\ \E a \in RankingAnswers(upstream.pages) :
          LET r == GetTopTickers(a, LIMIT)
          IN  IF r.ok
              THEN LoopStep(0, r.tickers, <<>>, [t \in 1..Len(r.tickers) |-> IdleWorker])
              ELSE /\ resp' = Error500(r.error)
                   /\ pc' = "done"
                   /\ UNCHANGED <<tickers, i, out, w, calls>>
    /\ UNCHANGED <<variant, apiKey, upstream, req, range, LIMIT>>

\* worker t goes on as wk, a call outstanding unless it has returned;
\* a rejected worker rejects Promise.all
Settle(t, wk) ==
    /\ w' = [w EXCEPT ![t] = wk]
    /\ calls' = CallCount(calls + (IF wk.pc \in {"eod", "intra"} THEN 1 ELSE 0))
    /\ IF wk.pc = "rejected"
       THEN /\ resp' = Error500("network error")
            /\ pc' = "done"
       ELSE UNCHANGED <<resp, pc>>
    /\ UNCHANGED <<variant, apiKey, upstream, req, range, LIMIT, tickers, i, out>>

\* a page of end-of-day history of ticker t is answered
EodPageCompletes(t) ==
    /\ pc = "batch"
    /\ w[t].pc = "eod"
    /\ \E a \in EodAnswers(upstream.profile[tickers[t]], w[t].fetched, w[t].kind) :
          Settle(t, FetchEodHistory(variant, w[t], a))

\* the intraday call of ticker t is answered
IntradayCompletes(t) ==
    /\ pc = "batch"
    /\ w[t].pc = "intra"
    /\ \E a \in IntradayAnswers(upstream.profile[tickers[t]]) :
          Settle(t, AfterIntraday(variant, range, w[t], a))

\* Promise.all of the current chunk resolves: out.push(...batch), next turn
BatchResolves ==
    /\ pc = "batch"
    /\ \A t \in Chunk(i, Len(tickers), Concurrency(LIMIT)) : w[t].pc = "done"
    /\ LoopStep(i + Concurrency(LIMIT), tickers,
                out \o BatchResults(i, tickers, w, Concurrency(LIMIT)), w)
    /\ UNCHANGED <<variant, apiKey, upstream, req, range, LIMIT>>

\* one step of the handler of the request at hand
Next ==
    \/ RejectNoKey /\ UNCHANGED <<other, client>>
    \/ Receive /\ UNCHANGED <<other, client>>
    \/ RankingCompletes /\ UNCHANGED <<other, client>>
    \/ \E t \in 1..Len(tickers) : EodPageCompletes(t) /\ UNCHANGED <<other, client>>
    \/ \E t \in 1..Len(tickers) : IntradayCompletes(t) /\ UNCHANGED <<other, client>>
    \/ BatchResolves /\ UNCHANGED <<other, client>>

(***************************************************************************)
(* Initial states.                                                         *)
(***************************************************************************)
\* req.query.limit, as characters; <<>> is the absent parameter
LimitParams ==
    { <<>>, <<"a">>, <<"0">>, <<"-", "5">>, <<"1">>, <<"1", "a">>, <<"1", "0", "1">> }

\* the upstream of the first symbol answers anything; of the others, the
\* even ones are down and the odd ones up
Profile(S) == [s \in S |-> IF s = 1 THEN "any" ELSE IF s % 2 = 0 THEN "down" ELSE "up"]

InitRequest ==
    /\ pc = "start"
    /\ range = ""
    /\ LIMIT = 0
    /\ tickers = <<>>
    /\ i = 0
    /\ out = <<>>
    /\ w = <<>>
    /\ resp = NoResponse
    /\ calls = 0

\* one request, no page
Alone == other = NoRequest /\ client = NoClient

Init ==
    /\ variant \in {1, 2}
    /\ apiKey \in {"", "key"}
    /\ upstream = [pages |-> PagesUpTo(MaxSymbols, MaxMatches),
                   profile |-> Profile(1..MaxSymbols)]
    /\ req \in [range : RangeParams, limit : LimitParams]
    /\ InitRequest
    /\ Alone

Spec == Init /\ [][Next]_vars


\* a ranking page of BatchSymbols symbols, every third of them down, and a
\* limit above the concurrency cap
InitBatch ==
    /\ variant \in {1, 2}
    /\ apiKey \in {"", "key"}
    /\ upstream = [pages |-> {[s \in 1..BatchSymbols |-> s]},
                   profile |-> [s \in 1..BatchSymbols |-> IF s % 3 = 0 THEN "down" ELSE "up"]]
    /\ req \in [range : {"hour", "day"}, limit : {<<"1", "1">>}]
    /\ InitRequest
    /\ Alone

SpecBatch == InitBatch /\ [][Next]_vars

\* both families of requests
SpecAll == (Init \/ InitBatch) /\ [][Next]_vars

\* of three symbols in a row, the first has bars and no history, the second
\* is down and the third up
PageProfile(S) ==
    [s \in S |-> IF s % 3 = 1 THEN "intraonly" ELSE IF s % 3 = 2 THEN "down" ELSE "up"]

\* the ranking service serves one page, known from the start
InitPage ==
    /\ variant \in {1, 2}
    /\ apiKey \in {"", "key"}
    /\ \E pg \in PagesUpTo(PageSymbols, PageMatches) :
          upstream = [pages |-> {pg}, profile |-> PageProfile(1..PageSymbols)]
    /\ req \in [range : {"", "day", "year", "foo"}, limit : {<<>>, <<"1">>, <<"2">>}]
    /\ InitRequest
    /\ Alone

SpecPage == InitPage /\ [][Next]_vars

\* every call issued is answered in the end (fetch settles: with an answer,
\* or by throwing), and a handler that can go on does
FairPage == SpecPage /\ WF_vars(Next)

\* of three symbols in a row, the end-of-day history of the first has no
\* end: every page of it is answered 2xx with no rows and a next_page cursor
EndlessProfile(S) ==
    [s \in S |-> IF s % 3 = 1 THEN "endless" ELSE IF s % 3 = 2 THEN "down" ELSE "up"]

InitEndless ==
    /\ variant \in {1, 2}
    /\ apiKey \in {"", "key"}
    /\ upstream = [pages |-> {[s \in 1..PageSymbols |-> s]},
                   profile |-> EndlessProfile(1..PageSymbols)]
    /\ req \in [range : {"", "hour", "year", "constructor"}, limit : {<<"1">>, <<"2">>}]
    /\ InitRequest
    /\ Alone

SpecEndless == InitEndless /\ [][Next]_vars

\* every call issued is answered in the end, each of them: the ranking call
\* and the calls of every worker; and the handler goes on when it can
FairEndless ==
    /\ SpecEndless
    /\ WF_vars(RejectNoKey /\ UNCHANGED <<other, client>>)
    /\ WF_vars(Receive /\ UNCHANGED <<other, client>>)
    /\ WF_vars(RankingCompletes /\ UNCHANGED <<other, client>>)
    /\ WF_vars(BatchResolves /\ UNCHANGED <<other, client>>)
    /\ \A t \in 1..PageSymbols :
          /\ WF_vars(t \in 1..Len(tickers) /\ EodPageCompletes(t)
                        /\ UNCHANGED <<other, client>>)
          /\ WF_vars(t \in 1..Len(tickers) /\ IntradayCompletes(t)
                        /\ UNCHANGED <<other, client>>)

(***************************************************************************)
(* The day/week server (part_004; src/server.js has the same pricePromises).*)
(* Its handler is variant 3: the ranking page, then one daily-prices call   *)
(* per ticker, all issued at once, and the response when all have returned. *)
(*   pc   "start", "ranking" awaiting the page, "prices" awaiting           *)
(*        Promise.all(pricePromises), "done"                                *)
(* A record of stock_prices is [rec, close, percent_change]; rec is FALSE   *)
(* for an element that is null.                                             *)
(***************************************************************************)
Rec(close, pct) == [rec |-> TRUE, close |-> close, percent_change |-> pct]

NoRec == [rec |-> FALSE, close |-> Null, percent_change |-> Null]

\* const range = req.query.range === 'week' ? 'week' : 'day'
DailyRange(raw) == IF raw = "week" THEN "week" ELSE "day"

\* CompareIndex with a fault: the record after the latest, on every range
CompareIndexDay(rng) == CompareDay

\* const compareIndex = range === 'week' ? 5 : 1
CompareIndex(rng) == IF rng = "week" THEN CompareWeek ELSE CompareDay

\* getTopTickers of part_004: at most 100 symbols, an empty list is returned
DailyTopTickers(answer) ==
    IF answer.kind = "throw" THEN [ok |-> FALSE, error |-> "network error", tickers |-> <<>>]
    ELSE IF answer.kind = "fail"
    THEN [ok |-> FALSE, error |-> "Failed to fetch tickers", tickers |-> <<>>]
    ELSE [ok |-> TRUE, error |-> "", tickers |-> ScanMatches(answer.page, <<>>, DailyTickersMax)]

\* the records the latest one is drawn from
LatestRecs ==
    {Rec(c, p) : c \in {Null, Num(0), Num(110), Inf(1)}, p \in {Null, Num(2)}} \cup {NoRec}

\* what the older records of a series are: closes as in RowClose, or null
\* elements
PrevKinds == EodKinds \cup {"norec"}

\* the descending series of n records with the given latest record, the
\* record at index k (0-based, k > 0) closing at RowClose(kind, k)
Series(n, latest, kind) ==
    [k \in 1..n |-> IF k = 1 THEN latest
                    ELSE IF kind = "norec" THEN NoRec
                    ELSE Rec(RowClose(kind, k - 1), Null)]

\* the answers to the daily-prices call of a ticker: the fetch throws, a
\* non-2xx status, a body without a stock_prices array, or a series
DailyAnswers(p) ==
    CASE p = "any" ->
            {[kind |-> "throw", rows |-> <<>>], [kind |-> "fail", rows |-> <<>>],
             [kind |-> "noarray", rows |-> <<>>]}
            \cup {[kind |-> "ok", rows |-> Series(n, l, k)] :
                     n \in 0..MaxRows, l \in LatestRecs, k \in PrevKinds}
      [] p = "down" -> {[kind |-> "fail", rows |-> <<>>]}
      [] OTHER -> {[kind |-> "ok", rows |-> Series(MaxRows, Rec(Num(110), Num(2)), "num")]}

\* the body of a pricePromises callback after its fetch was answered a
PriceItem(rng, a) ==
    LET nulls == [pc |-> "done", answer |-> a, price |-> Null, changePercent |-> Null]
    IN  IF a.kind # "ok" \/ Len(a.rows) = 0 THEN nulls
        ELSE LET latest == a.rows[1]
                 ci == CompareIndex(rng)
                 prev == IF Len(a.rows) > ci THEN a.rows[ci + 1] ELSE NoRec
             IN  IF ~latest.rec THEN nulls
                 ELSE [pc |-> "done", answer |-> a, price |-> latest.close,
                       changePercent |->
                           IF prev.rec /\ prev.close # Null /\ ~IsZero(prev.close)
                                 /\ latest.close # Null
                           THEN PctChange(latest.close, prev.close)
                           ELSE IF latest.percent_change # Null
                           THEN latest.percent_change
                           ELSE Null]

\* a callback that awaits its fetch
AwaitingPrices == [pc |-> "fetch", answer |-> [kind |-> "", rows |-> <<>>],
                   price |-> Null, changePercent |-> Null]

\* the handler up to its first await
DailyStart ==
    /\ variant = 3
    /\ pc = "start"
    /\ IF KeyMissing(apiKey)
       THEN /\ resp' = [status |-> 500, body |-> <<>>,
                        error |-> "INTRINIO_API_KEY is not configured on the server."]
            /\ pc' = "done"
            /\ UNCHANGED <<range, calls>>
       ELSE /\ range' = DailyRange(req.range)
            /\ pc' = "ranking"
            /\ calls' = calls + 1
            /\ UNCHANGED resp
    /\ UNCHANGED <<variant, apiKey, upstream, req, LIMIT, tickers, i, out, w, other, client>>

\* the ranking page is answered: tickers.map issues every daily-prices call
DailyRanking ==
    /\ variant = 3
    /\ pc = "ranking"
    /\ \E a \in RankingAnswers(upstream.pages) :
          LET r == DailyTopTickers(a)
          IN  IF r.ok
              THEN /\ tickers' = r.tickers
                   /\ w' = [k \in 1..Len(r.tickers) |-> AwaitingPrices]
                   /\ calls' = calls + Len(r.tickers)
                   /\ pc' = "prices"
                   /\ UNCHANGED resp
              ELSE /\ resp' = [status |-> 500, body |-> <<>>, error |-> r.error]
                   /\ pc' = "done"
                   /\ UNCHANGED <<tickers, w, calls>>
    /\ UNCHANGED <<variant, apiKey, upstream, req, range, LIMIT, i, out, other, client>>

\* the daily-prices call of the ticker at position t is answered
DailyPriceCompletes(t) ==
    /\ variant = 3
    /\ pc = "prices"
    /\ w[t].pc = "fetch"
    /\ \E a \in DailyAnswers(upstream.profile[tickers[t]]) :
          w' = [w EXCEPT ![t] = PriceItem(range, a)]
    /\ UNCHANGED <<variant, apiKey, upstream, req, pc, range, LIMIT, tickers, i, out, resp,
                   calls, other, client>>

\* Promise.all(pricePromises) has resolved: res.json(prices)
DailyRespond ==
    /\ variant = 3
    /\ pc = "prices"
    /\ \A t \in DOMAIN w : w[t].pc = "done"
    /\ resp' = [status |-> 200, error |-> "",
                body |-> [k \in 1..Len(tickers) |->
                             [ticker |-> tickers[k],
                              price |-> JsonNumber(w[k].price),
                              changePercent |-> JsonNumber(w[k].changePercent)]]]
    /\ pc' = "done"
    /\ UNCHANGED <<variant, apiKey, upstream, req, range, LIMIT, tickers, i, out, w, calls,
                   other, client>>

NextDaily ==
    \/ DailyStart
    \/ DailyRanking
    \/ \E t \in DOMAIN w : DailyPriceCompletes(t)
    \/ DailyRespond

\* a request arrives at the day/week server
InitDaily ==
    /\ variant = 3
    /\ apiKey \in {"", "key"}
    /\ upstream = [pages |-> PagesUpTo(MaxSymbols, MaxMatches),
                   profile |-> Profile(1..MaxSymbols)]
    /\ req \in [range : {"", "day", "week", "WEEK", "hour"}, limit : {<<>>}]
    /\ InitRequest
    /\ Alone

SpecDaily == InitDaily /\ [][NextDaily]_vars

(***************************************************************************)
(* Two requests in one process.  Node runs one handler at a time, from one *)
(* await to the next; the request variables are those of the handler that  *)
(* runs, and `other` holds the locals of the handler that waits.  What the  *)
(* two share is the process: variant, apiKey (process.env) and upstream.    *)
(***************************************************************************)
\* the locals of the handler at hand (and its call count)
Locals ==
    [req |-> req, pc |-> pc, range |-> range, LIMIT |-> LIMIT, tickers |-> tickers,
     i |-> i, out |-> out, w |-> w, resp |-> resp, calls |-> calls]

\* the locals of a handler not yet run, for query q
FreshLocals(q) ==
    [req |-> q, pc |-> "start", range |-> "", LIMIT |-> 0, tickers |-> <<>>,
     i |-> 0, out |-> <<>>, w |-> <<>>, resp |-> NoResponse, calls |-> 0]

\* Resume with a fault: `out` is one array of the module, shared by the handlers
ResumeSharedOut(cur, oth) == [oth EXCEPT !.out = cur.out]

\* the locals a waiting handler finds when it runs again after the handler
\* with locals cur: its own
Resume(cur, oth) == oth

\* the event loop turns to the other handler
Switch ==
    /\ other # NoRequest
    /\ LET l == Resume(Locals, other)
       IN  /\ req' = l.req
           /\ pc' = l.pc
           /\ range' = l.range
           /\ LIMIT' = l.LIMIT
           /\ tickers' = l.tickers
           /\ i' = l.i
           /\ out' = l.out
           /\ w' = l.w
           /\ resp' = l.resp
           /\ calls' = l.calls
    /\ other' = Locals
    /\ UNCHANGED <<variant, apiKey, upstream, client>>

NextTwo ==
    \/ Next
    \/ Switch

\* two requests have arrived; the ranking page lists the symbols from the
\* last to the first
InitTwo ==
    /\ variant \in {1, 2}
    /\ apiKey \in {"", "key"}
    /\ upstream = [pages |-> {[k \in 1..PageSymbols |-> PageSymbols + 1 - k]},
                   profile |-> PageProfile(1..PageSymbols)]
    /\ req \in [range : {"hour", "year"}, limit : {<<"2">>}]
    /\ InitRequest
    /\ \E q \in [range : {"day", "foo"}, limit : {<<"1">>, <<"3">>}] : other = FreshLocals(q)
    /\ client = NoClient

SpecTwo == InitTwo /\ [][NextTwo]_vars

(***************************************************************************)
(* The page in the browser (bubbles.js).  client is                        *)
(*   svg    the children of the SVG, in order: [kind, load, range], kind   *)
(*          "loading", "title", "g", "empty" or "error", load the number   *)
(*          of the call of loadBubbles that appended it                    *)
(*   loads  the calls of loadBubbles awaiting fetchRange: [id, range]      *)
(*   clicks the calls of loadBubbles so far                                *)
(***************************************************************************)
RANGES == {"hour", "day", "week", "month", "year"}

\* the data-range attributes of the buttons of the page
Buttons == RANGES \cup {"max"}

Node(kind, ld) == [kind |-> kind, load |-> ld.id, range |-> ld.range]

\* ClearBubbles with a fault: nothing is removed
ClearBubblesKeeps(svg) == svg

\* clearBubbles: while (svg.firstChild) svg.removeChild(svg.firstChild)
ClearBubbles(svg) == <<>>

\* what /api/sp500 answers the page: the fetch throws, a non-2xx status, or
\* 2xx with a body that is an array of n items with a ticker (0 also for a
\* body that is no array)
ApiAnswers ==
    {[kind |-> "throw", items |-> 0], [kind |-> "fail", items |-> 0]}
    \cup {[kind |-> "ok", items |-> n] : n \in {0, 1, ClientLimit, ClientLimit + 1}}

\* fetchRange: the number of rows returned, after .slice(0, LIMIT)
FetchRange(a) == Min(a.items, ClientLimit)

\* renderBubbles(rows, range) for n rows: clear, the title, a group for each
\* row, and 'No data.' for no row
RenderBubbles(svg, n, ld) ==
    ClearBubbles(svg) \o <<Node("title", ld)>> \o [k \in 1..n |-> Node("g", ld)]
        \o (IF n = 0 THEN <<Node("empty", ld)>> ELSE <<>>)

\* loadBubbles(range) up to its await: clear, the loading text, the fetch
LoadBubbles(c, r) ==
    LET ld == [id |-> c.clicks + 1, range |-> r]
    IN  [svg |-> ClearBubbles(c.svg) \o <<Node("loading", ld)>>,
         loads |-> c.loads \cup {ld},
         clicks |-> c.clicks + 1]

\* loadBubbles after its await, on answer a: render, or clear and the error
LoadSettles(c, ld, a) ==
    [c EXCEPT !.loads = @ \ {ld},
              !.svg = IF a.kind = "ok"
                      THEN RenderBubbles(c.svg, FetchRange(a), ld)
                      ELSE ClearBubbles(c.svg) \o <<Node("error", ld)>>]

\* the request variables, which the page does not touch
serverVars == <<variant, apiKey, upstream, req, pc, range, LIMIT, tickers, i, out, w, resp,
                calls, other>>

\* a click on the button with data-range r
Click(r) ==
    /\ client.clicks < MaxLoads
    /\ client' = IF r \in RANGES THEN LoadBubbles(client, r) ELSE client
    /\ UNCHANGED serverVars

\* the fetch of load ld settles
FetchSettles(ld) ==
    /\ ld \in client.loads
    /\ \E a \in ApiAnswers : client' = LoadSettles(client, ld, a)
    /\ UNCHANGED serverVars

NextClient ==
    \/ \E r \in Buttons : Click(r)
    \/ \E ld \in client.loads : FetchSettles(ld)

\* DOMContentLoaded has run: the default range is being loaded
InitClient ==
    /\ variant = 1
    /\ apiKey = "key"
    /\ upstream = [pages |-> {<<>>}, profile |-> <<>>]
    /\ req = [range |-> "", limit |-> <<>>]
    /\ InitRequest
    /\ other = NoRequest
    /\ client = LoadBubbles(NoClient, "day")

SpecClient == InitClient /\ [][NextClient]_vars

(***************************************************************************)
(* Properties.                                                             *)
(***************************************************************************)
Workers == DOMAIN w

Lookback == pc # "start" /\ range # "hour"

\* C1: at every moment the array `out` of the batch loop holds, for the
\* tickers before the loop index and in their order, the metric the worker of
\* that position returned, whatever the order in which the workers finished;
\* once the loop has ended it holds one metric per ticker, those with a null
\* price or changePercent included.
C1_OutFollowsTickers ==
    /\ Len(out) <= Len(tickers)
    /\ pc = "batch" => Len(out) = i
    /\ (pc = "done" /\ resp.status = 200) => Len(out) = Len(tickers)
    /\ \A k \in 1..Len(out) :
          /\ out[k].ticker = tickers[k]
          /\ out[k].price = w[k].price
          /\ out[k].changePercent = w[k].changePercent

\* C1 witness: a response over more than one batch in which a metric with a
\* null price and a null changePercent kept its place between two others.
C1_Witness ==
    /\ pc = "done"
    /\ resp.status = 200
    /\ Len(out) > ConcurrencyCap
    /\ \E k \in 2..(Len(out) - 1) :
          /\ out[k].price = Null
          /\ out[k].changePercent = Null
          /\ out[k - 1].price # Null
          /\ out[k + 1].price # Null

\* the percent change from close b to close a, both integers, b # 0
Percent(a, b) == Frac((a - b) * 100, b)

\* what a ticker whose upstream is up shows: the last bar closes at 110, and
\* row n of its daily series closes at 99 + n
UpPrice == Num(110)

\* its change on the five ranges
UpChange ==
    CASE range = "hour" -> Percent(110, 100)
      [] range = "day" -> Percent(110, 99 + 1)
      [] range = "week" -> Percent(110, 99 + 5)
      [] range = "month" -> Percent(110, 99 + 21)
      [] range = "year" -> Percent(110, 99 + 252)

RECURSIVE RunAlone(_, _)
\* the invocation wk of work run to its return with nothing else going on,
\* on the answers of an upstream of profile p (p one that has one answer)
RunAlone(wk, p) ==
    CASE wk.pc = "eod" ->
            RunAlone(FetchEodHistory(variant, wk,
                        CHOOSE a \in EodAnswers(p, wk.fetched, wk.kind) : TRUE), p)
      [] wk.pc = "intra" ->
            AfterIntraday(variant, range, wk, CHOOSE a \in IntradayAnswers(p) : TRUE)
      [] OTHER -> wk

\* C2: once the ticker list is there the request is answered 200 with one
\* item per ticker; a ticker none of whose upstream calls was answered 2xx
\* (each failed with a non-2xx status or threw) is in the array with price
\* null and changePercent null, and a ticker whose upstream is up has the
\* price and the change it has when worked alone (on the five ranges: 110
\* and the change of its own series), whatever became of the others.
C2_FailureStaysLocal ==
    (pc = "done" /\ tickers # <<>>) =>
        /\ resp.status = 200
        /\ Len(resp.body) = Len(tickers)
        /\ \A k \in 1..Len(tickers) :
              /\ resp.body[k].ticker = tickers[k]
              /\ ~w[k].ok =>
                    /\ resp.body[k].price = Null
                    /\ resp.body[k].changePercent = Null
              /\ upstream.profile[tickers[k]] = "up" =>
                    LET alone == RunAlone(StartWork(variant, range), "up")
                    IN  /\ resp.body[k].price = UpPrice
                        /\ resp.body[k].price = JsonNumber(alone.price)
                        /\ resp.body[k].changePercent = JsonNumber(alone.changePercent)
                        /\ range \in {"hour", "day", "week", "month", "year"}
                              => resp.body[k].changePercent = UpChange

\* C2 witness: a 200 response in which a ticker all of whose calls failed
\* stands, with nulls, before a ticker that shows its own values and after
\* one that shows a price.
C2_Witness ==
    /\ pc = "done"
    /\ resp.status = 200
    /\ \E k \in 2..(Len(tickers) - 1) :
          /\ ~w[k].ok
          /\ resp.body[k].price = Null
          /\ resp.body[k].changePercent = Null
          /\ resp.body[k - 1].price # Null
          /\ upstream.profile[tickers[k + 1]] = "up"
          /\ resp.body[k + 1].changePercent = UpChange

\* the LIMIT the specification asks for: the parsed integer, clamped
ClampedLimit(raw) ==
    LET p == ParseInt(raw)
    IN  IF p.k # "num" THEN 10
        ELSE IF p.n < 1 THEN 1 ELSE IF p.n > 100 THEN 100 ELSE p.n

\* C3: whatever the limit parameter, LIMIT is its parsed integer clamped to
\* 1..100 (10 when absent or not numeric); the request is answered 200 or,
\* for the missing key or a failed ranking page, 500, never rejected for its
\* limit; the array of a 200 response has at most LIMIT items.
C3_LimitClamped ==
    /\ pc \in {"ranking", "batch"} \/ (pc = "done" /\ ~KeyMissing(apiKey)) =>
          /\ LIMIT = ClampedLimit(req.limit)
          /\ LIMIT \in 1..100
    /\ resp.status \in {0, 200, 500}
    /\ resp.status = 500 =>
          resp.error \in {"INTRINIO_API_KEY missing", "SlickCharts HTTP",
                          "No S&P500 tickers scraped", "network error"}
    /\ resp.status = 200 => Len(resp.body) <= LIMIT /\ Len(resp.body) = Len(tickers)

\* C3 witness: limit=0 is clamped up to 1 and the response, from a ranking
\* page of more symbols, has one item.
C3_Witness ==
    /\ req.limit = <<"0">>
    /\ LIMIT = 1
    /\ resp.status = 200
    /\ Len(resp.body) = 1

\* C4: with no API key configured the request is answered 500 with an error
\* field and no external call is ever issued.
C4_NoKeyNoCalls ==
    apiKey = "" =>
        /\ calls = 0
        /\ pc \in {"start", "done"}
        /\ \A t \in Workers : w[t].pc = "idle"
        /\ pc = "done" => resp.status = 500 /\ resp.error # "" /\ resp.body = <<>>

\* C4 witness: a request answered without a key.
C4_Witness == apiKey = "" /\ pc = "done" /\ resp.status = 500 /\ calls = 0

\* the change range=day shows for worker wk: its price against the close of
\* row 1 of the history, or of the only row
DayChange(wk) ==
    LET b == RowClose(wk.kind, IF wk.len > 1 THEN 1 ELSE wk.len - 1)
    IN  IF wk.len = 0 \/ ~IsNumber(wk.price) \/ ~IsNumber(b) \/ IsZero(b)
        THEN Null
        ELSE PctChange(wk.price, b)

\* C5 (as claimed): a range that is absent or, lower-cased, none of hour,
\* day, week, month, year is served as range=day: every metric is the one
\* range=day computes from the same history and the same intraday close.
C5_UnknownRangeIsDay ==
    (req.range = "" \/ ToLowerCase(req.range) \notin {"hour", "day", "week", "month", "year"}) =>
        \A t \in Workers :
            w[t].pc = "done" => w[t].changePercent = DayChange(w[t])

\* C6: in a 200 response every changePercent is a finite number or null; a
\* zero base or a missing operand gives null, and no worker ends in an
\* exception.
C6_ChangeFiniteOrNull ==
    /\ resp.status = 200 =>
          \A k \in 1..Len(resp.body) :
              /\ resp.body[k].changePercent.k \in {"num", "null"}
              /\ resp.body[k].changePercent.d > 0
    /\ \A t \in Workers :
          /\ w[t].pc \in {"idle", "eod", "intra", "done"}
          /\ (w[t].pc = "done" /\ (IsZero(w[t].base) \/ w[t].base = Null \/ w[t].now = Null))
                => w[t].changePercent = Null

\* C6 witness: a 200 response whose item shows null where the worker had
\* computed a change that is not finite, from a close of Infinity.
C6_Witness ==
    /\ resp.status = 200
    /\ \E k \in 1..Len(resp.body) :
          /\ w[k].changePercent.k \in {"inf", "nan"}
          /\ resp.body[k].changePercent = Null

\* C7: on the session-lookback path, with now and base the locals of
\* eodChangeVsLatest15m, changePercent is ((now - base) / base) * 100 when
\* both are numbers and base is not 0 (10 for now = 110, base = 100), and
\* null when base is 0 or now or base is null.
C7_LookbackFormula ==
    Lookback =>
        \A t \in Workers :
            w[t].pc = "done" =>
                LET now == w[t].now
                    base == w[t].base
                    pct == w[t].changePercent
                IN  /\ (IsFinite(now) /\ IsFinite(base) /\ ~IsZero(base))
                          => pct = Percent(now.n, base.n)
                    /\ (IsNumber(now) /\ IsNumber(base) /\ ~IsZero(base)
                            /\ ~(IsFinite(now) /\ IsFinite(base)))
                          => pct.k \in {"inf", "nan"}
                    /\ (IsZero(base) \/ now = Null \/ base = Null) => pct = Null
                    /\ (now = Num(110) /\ base = Num(100)) => pct = Num(10)

\* C7 witness: now = 110 against base = 100 gave 10, on the lookback path.
C7_Witness ==
    /\ Lookback
    /\ \E t \in Workers :
          /\ w[t].pc = "done"
          /\ w[t].now = Num(110)
          /\ w[t].base = Num(100)
          /\ w[t].changePercent = Num(10)

\* a state of C7's null case: a zero base gave null
C7_ZeroBase ==
    /\ Lookback
    /\ \E t \in Workers :
          w[t].pc = "done" /\ IsZero(w[t].base) /\ IsNumber(w[t].now)
             /\ w[t].changePercent = Null

\* C8: on the hour path the price is the close of the last bar (null when
\* there is no bar or its close is no number); with at least 6 bars, both
\* closes numbers and the earlier one not 0, the change compares the last
\* bar with the bar 5 positions before it; with fewer than 6 bars the base
\* and the change are null.
C8_HourAgainstFifthBarBack ==
    (pc # "start" /\ range = "hour") =>
        \A t \in Workers :
            w[t].pc = "done" =>
                LET arr == w[t].intervals
                    n == Len(arr)
                IN  /\ w[t].price = IF n > 0 /\ IsNumber(arr[n]) THEN arr[n] ELSE Null
                    /\ n < 6 => w[t].base = Null /\ w[t].changePercent = Null
                    /\ (n >= 6 /\ IsFinite(arr[n]) /\ IsFinite(arr[n - 5]) /\ ~IsZero(arr[n - 5]))
                          => /\ w[t].base = arr[n - 5]
                             /\ w[t].changePercent = Percent(arr[n].n, arr[n - 5].n)

\* C8 witness: 7 bars 90, 100, ..., 110: the change is 10 percent, against
\* the second bar and not the first.
C8_Witness ==
    /\ range = "hour"
    /\ \E t \in Workers :
          /\ w[t].pc = "done"
          /\ Len(w[t].intervals) = 7
          /\ w[t].intervals[1] = Num(90)
          /\ w[t].base = Num(100)
          /\ w[t].price = Num(110)
          /\ w[t].changePercent = Num(10)

\* a state of C8's second case: 5 bars give a price and no change
C8_FiveBars ==
    /\ range = "hour"
    /\ \E t \in Workers :
          /\ w[t].pc = "done"
          /\ Len(w[t].intervals) = 5
          /\ w[t].price = Num(110)
          /\ w[t].base = Null
          /\ w[t].changePercent = Null

\* the sessionsBack the specification gives a range
SessionsOf(rng) ==
    CASE rng = "day" -> 1 [] rng = "week" -> 5 [] rng = "month" -> 21 [] rng = "year" -> 252

\* C9: for day, week, month and year the base is the close of the row at
\* index 1, 5, 21, 252 of the history when it has more rows than that, and
\* else the close of its last row (null when that close is no number).
\* The base is computed whenever the history is not empty and the intraday
\* close is a number.
C9_BaseRow ==
    (pc # "start" /\ range \in {"day", "week", "month", "year"}) =>
        \A t \in Workers :
            (w[t].pc = "done" /\ w[t].len > 0 /\ IsNumber(w[t].now)) =>
                LET sb == SessionsOf(range)
                    c == RowClose(w[t].kind, IF w[t].len > sb THEN sb ELSE w[t].len - 1)
                IN  w[t].base = IF IsNumber(c) THEN c ELSE Null

\* C9 witness: range=year over a history of 300 rows takes row 252.
C9_Witness ==
    /\ range = "year"
    /\ \E t \in Workers :
          /\ w[t].pc = "done"
          /\ w[t].len > 252
          /\ w[t].kind = "num"
          /\ w[t].base = RowClose("num", 252)
          /\ w[t].changePercent # Null

\* a state of C9's second case: range=week over a history of 1 row takes
\* that row
C9_OldestRow ==
    /\ range = "week"
    /\ \E t \in Workers :
          /\ w[t].pc = "done"
          /\ w[t].len = 1
          /\ w[t].base = RowClose("num", 0)
          /\ w[t].changePercent # Null

\* the chunk (0-based) of position t when chunks hold min(LIMIT, 10) tickers
ChunkNo(t) == (t - 1) \div (IF LIMIT < 10 THEN LIMIT ELSE 10)

\* C10: the tickers are worked in consecutive chunks of min(LIMIT, 10): a
\* worker is started only once every worker of the chunks before its own has
\* returned its metric, and together with the others of its chunk; `out`
\* holds the metrics of the finished chunks.
C10_BatchBarrier ==
    pc \in {"batch", "done"} =>
        /\ \A t, u \in Workers :
              w[t].pc # "idle" =>
                  /\ ChunkNo(u) < ChunkNo(t) => w[u].pc = "done"
                  /\ ChunkNo(u) = ChunkNo(t) => w[u].pc # "idle"
        /\ \A t \in Workers : t <= Len(out) => w[t].pc = "done"
        /\ pc = "batch" => \A t \in Workers : w[t].pc # "idle" => ChunkNo(t) <= ChunkNo(Len(out) + 1)

\* C10 witness: the second chunk has a call outstanding, the 10 workers of
\* the first chunk have all returned.
C10_Witness ==
    /\ pc = "batch"
    /\ Len(tickers) > 10
    /\ w[11].pc \in {"eod", "intra"}
    /\ \A t \in 1..10 : w[t].pc = "done"

\* the external calls issued and not yet answered: the ranking page while
\* getTopTickers awaits it, and one call for each worker that awaits a page
\* of history or the intraday bars
Outstanding ==
    (IF pc = "ranking" THEN 1 ELSE 0)
    + Cardinality({t \in Workers : w[t].pc \in {"eod", "intra"}})

\* C11: at every moment of a request at most min(LIMIT, 10) external calls
\* are issued and not yet answered.
C11_OutstandingBounded ==
    pc # "start" =>
        /\ Outstanding <= (IF LIMIT < 10 THEN LIMIT ELSE 10)
        /\ Outstanding <= calls

\* C11 witness: 10 calls outstanding at once, of a request for 11 tickers.
C11_Witness == LIMIT > 10 /\ Len(tickers) > 10 /\ Outstanding = 10


\* the page the ranking service serves, under a specification where it
\* serves one
ThePage == CHOOSE pg \in upstream.pages : TRUE

\* the position of the first match of symbol x in page pg
FirstAt(pg, x) == CHOOSE k \in 1..Len(pg) : pg[k] = x /\ \A j \in 1..(k - 1) : pg[j] # x

RankingErrors == {"SlickCharts HTTP", "No S&P500 tickers scraped", "network error"}

\* C13: when the ranking page is answered non-2xx or no symbol is matched in
\* it, the request is answered 500 with the message of the failure in error
\* and no price or history call is issued: the ranking call stays the only
\* one and no worker exists; a 200 response is never an empty array.
C13_NoTickersIs500 ==
    /\ (~KeyMissing(apiKey) /\ pc = "done" /\ tickers = <<>>) =>
          /\ resp.status = 500
          /\ resp.error \in RankingErrors
          /\ resp.body = <<>>
          /\ calls = 1
          /\ w = <<>>
    /\ (~KeyMissing(apiKey) /\ pc = "done" /\ ThePage = <<>>) =>
          resp.status = 500 /\ resp.error \in RankingErrors
    /\ resp.error = "No S&P500 tickers scraped" => ThePage = <<>>
    /\ resp.error \in RankingErrors => calls = 1 /\ w = <<>>
    /\ resp.status = 200 => tickers # <<>> /\ resp.body # <<>>

\* C13 witness: a 2xx page without a symbol was answered 500, "No S&P500
\* tickers scraped", after the one call.
C13_Witness ==
    /\ pc = "done"
    /\ ThePage = <<>>
    /\ resp.status = 500
    /\ resp.error = "No S&P500 tickers scraped"
    /\ calls = 1

\* a state of C13's other case: the page was answered non-2xx
C13_Non2xx ==
    /\ pc = "done"
    /\ ThePage # <<>>
    /\ resp.status = 500
    /\ resp.error = "SlickCharts HTTP"
    /\ calls = 1


\* what a response is: 200 with one item per ticker, every worker having
\* returned, or 500 with a message and no array; nothing before the handler
\* has ended
ResponseShape ==
    /\ resp.status \in {0, 200, 500}
    /\ resp.status = 0 <=> pc # "done"
    /\ resp.status = 200 =>
          /\ resp.error = ""
          /\ Len(resp.body) = Len(tickers)
          /\ tickers # <<>>
          /\ \A k \in 1..Len(tickers) :
                w[k].pc = "done" /\ resp.body[k].ticker = tickers[k]
    /\ resp.status = 500 => resp.error # "" /\ resp.body = <<>>

C15_NonOkDegrades ==
    /\ \A t \in Workers : w[t].pc \in {"idle", "eod", "intra", "done"}
    /\ tickers # <<>> => resp.status # 500
    /\ \A t \in Workers :
          w[t].failed =>
              /\ w[t].pc \in {"intra", "done"}
              /\ (w[t].pc = "done" /\ range = "hour") =>
                    w[t].price = Null /\ w[t].changePercent = Null
              /\ (w[t].pc = "done" /\ range # "hour" /\ w[t].len = 0) =>
                    w[t].changePercent = Null
              /\ (w[t].pc = "done" /\ ~w[t].ok) =>
                    w[t].price = Null /\ w[t].changePercent = Null

\* C15 witness: the second page of the history was answered non-2xx and the
\* worker still returned a price and a change, from the rows of the first.
C15_Witness ==
    \E t \in Workers :
        /\ w[t].failed
        /\ w[t].pc = "done"
        /\ w[t].fetched = 2
        /\ w[t].len = PageSize
        /\ w[t].price # Null
        /\ w[t].changePercent # Null

\* a state of C15's other case: no history (non-2xx), a price and no change
C15_NoHistory ==
    \E t \in Workers :
        /\ w[t].failed
        /\ w[t].pc = "done"
        /\ w[t].len = 0
        /\ w[t].price = Num(110)
        /\ w[t].changePercent = Null


\* the tickers whose intraday endpoint serves bars, the last closing at 110
ServesBars(t) == upstream.profile[tickers[t]] \in {"intraonly", "up"}

\* C16 (as claimed): on the lookback ranges a ticker whose intraday endpoint
\* serves a bar with a numeric close is returned with that close as price,
\* whether or not its end-of-day history is empty or failed.
C16_PriceIsLatestClose ==
    Lookback =>
        \A t \in Workers :
            (w[t].pc = "done" /\ ServesBars(t)) => w[t].price = UpPrice

\* the same for the second version of the handler alone, where it holds
C16_SecondVersion == variant = 2 => C16_PriceIsLatestClose

\* a state of the second version: no history, the price and no change
C16_PriceWithoutChange ==
    /\ variant = 2
    /\ \E t \in Workers :
          /\ w[t].pc = "done"
          /\ w[t].len = 0
          /\ w[t].price = UpPrice
          /\ w[t].changePercent = Null


\* fetchEodHistory of worker t, need a number: a page is awaited only while
\* fewer than need + 1 rows are held, and a page after the first only when
\* the page before it was answered 2xx with a cursor
PagingState(t) ==
    (w[t].need.k = "num" /\ w[t].pc = "eod") =>
        /\ w[t].len < w[t].need.n + 1
        /\ w[t].fetched >= 1
        /\ w[t].fetched > 1 => w[t].next /\ ~w[t].failed

\* one step of fetchEodHistory of worker t, need a number: either the next
\* page is requested, the rows of the page answered added to those held,
\* still fewer than need + 1 and the page having a cursor; or the loop is
\* left for the intraday call, with need + 1 rows or more, or after a page
\* without a cursor, or after a non-2xx page
PagingStep(t) ==
    (w[t].need.k = "num" /\ w[t].pc = "eod" /\ w'[t] # w[t]) =>
        /\ w'[t].pc = "eod" =>
              /\ w'[t].fetched = w[t].fetched + 1
              /\ w'[t].len >= w[t].len
              /\ w'[t].len < w[t].need.n + 1
              /\ w'[t].next
              /\ ~w'[t].failed
        /\ w'[t].pc = "intra" =>
              /\ w'[t].fetched = w[t].fetched
              /\ w'[t].len >= w[t].len
              /\ \/ w'[t].len >= w[t].need.n + 1
                 \/ ~w'[t].next
                 \/ w'[t].failed
        /\ w'[t].failed => w'[t].len = w[t].len

C17_EnoughRows ==
    \E t \in Workers :
        /\ w[t].pc = "intra"
        /\ w[t].need = Num(1)
        /\ w[t].fetched = 1
        /\ w[t].len = PageSize
        /\ w[t].next


RECURSIVE PagesRequested(_)
\* the pages of history requested by the workers 1..n
PagesRequested(n) == IF n = 0 THEN 0 ELSE w[n].fetched + PagesRequested(n - 1)

\* the workers called so far, and those awaiting the intraday bars
Called == {t \in Workers : w[t].pc # "idle"}

AwaitingBars == {t \in Workers : w[t].pc = "intra"}

\* C20 (as claimed): the end-of-day history fetch issues one external call
\* per ticker, on every range.
C20_OneCallPerSubstep == \A t \in Workers : w[t].fetched <= 1

\* C20 (amended): no call is repeated.  The ranking page is fetched once; a
\* worker issues at most one intraday call; the history fetch issues one call
\* for each page it requests (none on range=hour, and more than one when the
\* first page does not hold sessionsBack + 1 rows and carries a cursor), and
\* no page is requested after a non-2xx page.  The calls of a request are
\* these and no others.
C20_NoCallRepeated ==
    /\ pc = "start" => calls = 0
    /\ pc = "ranking" => calls = 1
    /\ (pc \in {"batch", "done"} /\ ~KeyMissing(apiKey)) =>
          /\ calls >= 1 + PagesRequested(Len(tickers)) + Cardinality(AwaitingBars)
          /\ calls <= 1 + PagesRequested(Len(tickers)) + Cardinality(Called)
          /\ range = "hour" =>
                /\ PagesRequested(Len(tickers)) = 0
                /\ calls = 1 + Cardinality(Called)
    /\ \A t \in Workers :
          /\ w[t].fetched <= MaxPages
          /\ (w[t].pc = "eod" /\ w[t].fetched > 1) => w[t].ok /\ ~w[t].failed
          /\ (w[t].pc = "intra" /\ range = "hour") => ~w[t].failed /\ ~w[t].ok

\* C20 witness: range=year, three pages of history and the intraday bars:
\* five calls for one ticker, the ranking page among them.
C20_Witness ==
    /\ pc = "done"
    /\ range = "year"
    /\ Len(tickers) = 1
    /\ w[1].fetched = 3
    /\ w[1].len = 3 * PageSize
    /\ w[1].changePercent # Null
    /\ calls = 5


\* the children of the SVG of kind k
NodesOf(kinds) == {j \in 1..Len(client.svg) : client.svg[j].kind \in kinds}

\* what one draw leaves in an empty SVG: the loading text, the error text, or
\* the title followed by at most 10 groups, 'No data.' in place of the groups
\* when there is none
OneDraw(s) ==
    \/ Len(s) = 1 /\ s[1].kind \in {"loading", "error"}
    \/ /\ Len(s) >= 2
       /\ s[1].kind = "title"
       /\ \/ Len(s) = 2 /\ s[2].kind = "empty"
          \/ \A j \in 2..Len(s) : s[j].kind = "g"

\* C18: whatever the clicks and the order in which the fetches settle, the
\* SVG holds the content of one draw of one load: every child was appended by
\* the same call of loadBubbles, there are at most 10 groups, at most one
\* title and at most one placeholder (loading, error or 'No data.' text).
C18_NoAccumulation ==
    /\ \A j, k \in 1..Len(client.svg) :
          /\ client.svg[j].load = client.svg[k].load
          /\ client.svg[j].range = client.svg[k].range
    /\ OneDraw(client.svg)
    /\ Cardinality(NodesOf({"g"})) <= 10
    /\ Cardinality(NodesOf({"title"})) <= 1
    /\ Cardinality(NodesOf({"loading", "error", "empty"})) <= 1

\* C18 witness: three loads, all settled, the second one last: the SVG holds
\* its title and 10 groups and nothing of the third, drawn before it.
C18_Witness ==
    /\ client.clicks = 3
    /\ client.loads = {}
    /\ Len(client.svg) = 11
    /\ client.svg[1].load = 2
    /\ client.svg[11].kind = "g"


RECURSIVE RunAloneOn(_, _, _)
\* RunAlone for a handler whose range is rng
RunAloneOn(rng, wk, p) ==
    CASE wk.pc = "eod" ->
            RunAloneOn(rng, FetchEodHistory(variant, wk,
                          CHOOSE a \in EodAnswers(p, wk.fetched, wk.kind) : TRUE), p)
      [] wk.pc = "intra" ->
            AfterIntraday(variant, rng, wk, CHOOSE a \in IntradayAnswers(p) : TRUE)
      [] OTHER -> wk

\* the array a request with query q is answered when it is the only one, on
\* the page and the upstream answers of the specification
AloneBody(q) ==
    LET rng == NormalizeRange(q.range)
        tk == GetTopTickers([kind |-> "ok", page |-> ThePage],
                            ClampLimit(ParseInt(q.limit))).tickers
    IN  [k \in 1..Len(tk) |->
            LET wk == RunAloneOn(rng, StartWork(variant, rng), upstream.profile[tk[k]])
            IN  [ticker |-> tk[k],
                 price |-> JsonNumber(wk.price),
                 changePercent |-> JsonNumber(wk.changePercent)]]

\* a handler with locals l works on its own query alone: its range, limit
\* and tickers are those of its query, its array holds its own tickers, and
\* its response is the one it gives alone on the same upstream answers
AsAlone(l) ==
    /\ l.pc \notin {"start", "none"} /\ ~KeyMissing(apiKey) =>
          /\ l.range = NormalizeRange(l.req.range)
          /\ l.LIMIT = ClampLimit(ParseInt(l.req.limit))
          /\ Len(l.out) <= Len(l.tickers)
          /\ \A k \in 1..Len(l.out) : l.out[k].ticker = l.tickers[k]
          /\ l.tickers # <<>> =>
                l.tickers = [k \in 1..Len(AloneBody(l.req)) |-> AloneBody(l.req)[k].ticker]
    /\ l.resp.status = 200 => l.resp.body = AloneBody(l.req)
    /\ l.resp.status = 500 =>
          l.resp.error \in RankingErrors \cup {"INTRINIO_API_KEY missing"}

\* C19: of two requests handled in one process, whatever the order of their
\* steps, each is answered as it is when alone on the same upstream answers;
\* neither works on the ticker list or the result array of the other.
C19_RequestsIndependent ==
    other # NoRequest => AsAlone(Locals) /\ AsAlone(other)

\* C19 witness: both requests answered 200, each with its own array, the one
\* of two items and the other of three.
C19_Witness ==
    /\ other # NoRequest
    /\ pc = "done"
    /\ other.pc = "done"
    /\ resp.status = 200
    /\ other.resp.status = 200
    /\ Len(resp.body) = 2
    /\ Len(other.resp.body) = 3
    /\ resp.body[1].changePercent # other.resp.body[1].changePercent


\* the SVG holds the loading text of load ld
ShowsLoading(ld) == \E j \in 1..Len(client.svg) : client.svg[j] = Node("loading", ld)

\* C21: a load shows its loading text from its call until its fetch settles,
\* and not after: the loading texts in the SVG are those of the loads whose
\* fetch has not settled.
C21_LoadingWhilePending ==
    /\ \A ld \in client.loads : ShowsLoading(ld)
    /\ \A j \in 1..Len(client.svg) :
          client.svg[j].kind = "loading" =>
              [id |-> client.svg[j].load, range |-> client.svg[j].range] \in client.loads

\* the part of C21 on the load called last: while its fetch has not settled
\* the SVG holds its loading text
C21_LastLoadShowsLoading ==
    \A ld \in client.loads : ld.id = client.clicks => ShowsLoading(ld)

\* the part of C21 on the settling: when the fetch of a load settles, the SVG
\* is left with the draw of that load, its rows ('No data.' for none) or its
\* one error text, and without its loading text
C21_SettlingDraws ==
    [][\A ld \in client.loads :
          ld \notin client'.loads =>
              /\ OneDraw(client'.svg)
              /\ client'.svg[1].kind \in {"title", "error"}
              /\ \A j \in 1..Len(client'.svg) :
                    client'.svg[j].load = ld.id /\ client'.svg[j].range = ld.range]_vars

\* no loading text of a load whose fetch has settled is in the SVG
C21_NoLoadingAfterSettled ==
    \A j \in 1..Len(client.svg) :
        client.svg[j].kind = "loading" =>
            [id |-> client.svg[j].load, range |-> client.svg[j].range] \in client.loads


\* the record of a series compared with on raw range raw: stock_prices[1],
\* and stock_prices[5] on 'week'; NoRec when the series is too short
CompareRecord(raw, rows) ==
    LET at == IF raw = "week" THEN 6 ELSE 2
    IN  IF Len(rows) >= at THEN rows[at] ELSE NoRec

\* C22: in the day/week server a range other than 'week' is day; a returned
\* callback holds nulls for an empty or failed series, else the latest close
\* as price and, as changePercent, (latest.close - prev.close) / prev.close *
\* 100 against stock_prices[1] (day) or stock_prices[5] (week) when that
\* record has a close that is neither null nor 0 and latest.close is not
\* null, else latest.percent_change when present, else null.
C22_DayWeekChange ==
    variant = 3 /\ pc \in {"prices", "done"} /\ ~KeyMissing(apiKey) =>
        /\ range = (IF req.range = "week" THEN "week" ELSE "day")
        /\ \A t \in DOMAIN w :
              w[t].pc = "done" =>
                  LET a == w[t].answer
                      latest == a.rows[1]
                      prev == CompareRecord(req.range, a.rows)
                      pct == w[t].changePercent
                      has == /\ prev.rec
                             /\ prev.close.k # "null"
                             /\ ~IsZero(prev.close)
                             /\ latest.close.k # "null"
                  IN  IF a.kind # "ok" \/ a.rows = <<>>
                      THEN w[t].price = Null /\ pct = Null
                      ELSE latest.rec =>
                              /\ w[t].price = latest.close
                              /\ (has /\ IsFinite(latest.close) /\ IsFinite(prev.close))
                                    => pct = Percent(latest.close.n, prev.close.n)
                              /\ (has /\ ~(IsFinite(latest.close) /\ IsFinite(prev.close)))
                                    => pct.k \in {"inf", "nan"}
                              /\ (~has /\ latest.percent_change.k # "null")
                                    => pct = latest.percent_change
                              /\ (~has /\ latest.percent_change.k = "null") => pct = Null

\* C22 witness: on range=week a series of six records, the latest closing at
\* 110 and stock_prices[5] at 104, gave 600/104 per cent, and the response
\* carries it.
C22_Witness ==
    /\ variant = 3
    /\ pc = "done"
    /\ resp.status = 200
    /\ req.range = "week"
    /\ Len(w) >= 1
    /\ Len(w[1].answer.rows) = 6
    /\ w[1].answer.rows[1].close = Num(110)
    /\ w[1].answer.rows[6].close = Num(104)
    /\ resp.body[1].price = Num(110)
    /\ resp.body[1].changePercent = Frac(600, 104)

\* on range=day the fallback: a series of one record with a percent_change
\* gave that percent_change
C22_FallbackReached ==
    /\ variant = 3
    /\ pc = "done"
    /\ resp.status = 200
    /\ req.range = "hour"
    /\ Len(w) >= 1
    /\ Len(w[1].answer.rows) = 1
    /\ w[1].answer.rows[1].rec
    /\ resp.body[1].changePercent = Num(2)


\* C23: once the fetches of all loads have settled, in whatever order, the
\* SVG shows the load of the range selected last: a settling of an earlier
\* load does not replace what a later one shows.
C23_LastSelectionShown ==
    client.loads = {} => \A j \in 1..Len(client.svg) : client.svg[j].load = client.clicks

\* two tabs clicked after the first load, every fetch settled, and the SVG
\* holds the title and rows of the first tab clicked, not of the second
C23_EarlierTabShown ==
    /\ client.clicks = 3
    /\ client.loads = {}
    /\ client.svg[1].kind = "title"
    /\ \A j \in 1..Len(client.svg) : client.svg[j].load = 2

\* a settling never replaces the draw of a later load by that of an earlier one
C23_NeverOverwritten ==
    [][\A j \in 1..Len(client.svg), k \in 1..Len(client'.svg) :
          client'.svg[k].load >= client.svg[j].load]_vars


\* C24: every call answered in the end, the request is answered in the end,
\* whatever pages the end-of-day history is served in, pages of no rows with
\* a next_page cursor among them.
C24_EventuallyResponds == <>(resp.status # 0)

\* a worker goes on requesting pages: it has requested more than MaxPages of
\* them and holds no row
C24_StillPaging ==
    \E t \in Workers : w[t].pc = "eod" /\ w[t].fetched > MaxPages /\ w[t].len = 0

\* the worker of a ticker with an endless history returns only when need + 1
\* is not a number the length compares with (second version, an inherited
\* property of sessionsMap), or on range=hour
C24_EndlessNeverReturns ==
    \A t \in Workers :
        (upstream.profile[tickers[t]] = "endless" /\ w[t].pc \in {"intra", "done"}) =>
            range = "hour" \/ w[t].need.k # "num"


RECURSIVE RunAs(_, _, _, _)
\* the worker wk of version v, on range rng, run to its return on the
\* answers of profile p
RunAs(v, rng, wk, p) ==
    CASE wk.pc = "eod" ->
            RunAs(v, rng, FetchEodHistory(v, wk,
                             CHOOSE a \in EodAnswers(p, wk.fetched, wk.kind) : TRUE), p)
      [] wk.pc = "intra" ->
            AfterIntraday(v, rng, wk, CHOOSE a \in IntradayAnswers(p) : TRUE)
      [] OTHER -> wk

\* the array version v answers the query q with, on the page and the
\* upstream answers of the specification
BodyAs(v, q) ==
    LET rng == NormalizeRange(q.range)
        tk == GetTopTickers([kind |-> "ok", page |-> ThePage],
                            ClampLimit(ParseInt(q.limit))).tickers
    IN  [k \in 1..Len(tk) |->
            LET wk == RunAs(v, rng, StartWork(v, rng), upstream.profile[tk[k]])
            IN  [ticker |-> tk[k],
                 price |-> JsonNumber(wk.price),
                 changePercent |-> JsonNumber(wk.changePercent)]]

\* the other version of the handler
OtherVersion == 3 - variant

\* C25: the two versions of the handler in part_001 answer alike: the array
\* of a 200 response of the one is the array the other gives for the same
\* range, limit and upstream answers.
C25_VersionsAgree ==
    resp.status = 200 => resp.body = BodyAs(OtherVersion, req)

\* the array of a 200 response is the one computed for the version that ran
C25_OwnVersion ==
    resp.status = 200 => resp.body = BodyAs(variant, req)

\* the versions agree on a request none of whose tickers has bars without
\* history
C25_AgreeWithHistory ==
    (resp.status = 200 /\ \A k \in 1..Len(tickers) :
                              upstream.profile[tickers[k]] # "intraonly")
        => resp.body = BodyAs(OtherVersion, req)

\* the second version answered with the price of a ticker that has bars and
\* no history, where the first version gives null
C25_PriceOnlyInSecond ==
    /\ variant = 2
    /\ resp.status = 200
    /\ Len(resp.body) >= 1
    /\ resp.body[1].price = Num(110)
    /\ BodyAs(1, req)[1].price = Null


\* C26: in a 200 response every element has a ticker that is not empty and
\* no two elements have the same ticker; the array is the result array of
\* the batch loop, one element per ticker in the order of tickers, so the
\* filter and the slice to LIMIT before sending remove nothing.
C26_FilterRemovesNothing ==
    resp.status = 200 =>
        /\ \A k \in 1..Len(resp.body) : resp.body[k].ticker \in SeqRange(ThePage)
        /\ \A k \in 1..Len(resp.body) : resp.body[k].ticker # 0
        /\ \A j, k \in 1..Len(resp.body) :
              j # k => resp.body[j].ticker # resp.body[k].ticker
        /\ Len(out) = Len(tickers)
        /\ Len(out) <= LIMIT
        /\ \A k \in 1..Len(out) : Truthy(out[k])
        /\ Len(resp.body) = Len(out)
        /\ \A k \in 1..Len(out) : resp.body[k].ticker = out[k].ticker

\* C26 witness: a page that matches a symbol twice, answered 200 with three
\* elements, all the loop produced.
C26_Witness ==
    /\ resp.status = 200
    /\ Len(ThePage) > Cardinality(SeqRange(ThePage))
    /\ Len(out) = 3
    /\ Len(resp.body) = 3

=============================================================================
